---- MODULE Spec2Model ----
(***************************************************************************)
(* Model of the file-renamer package: the filename sanitizer               *)
(* (renamer/core/sanitizer.py) and the rename workflow                     *)
(* (renamer/operations/base.py) over a local directory                     *)
(* (renamer/operations/local.py, renamer/core/sidecar.py), as main runs it *)
(* (renamer_cli.py), and read_sidecar on one stored sidecar.               *)
(*                                                                         *)
(* A filename is a sequence of characters; a character is a one-element    *)
(* string.  A character outside ASCII is written by its code point, e.g.   *)
(* "U+00E9" for e-acute, and counts as one character, as in Python.        *)
(***************************************************************************)
EXTENDS Integers, Sequences, FiniteSets, TLC

VARIABLES
    raw,        \* sanitizer run: the raw filename handed to sanitize
    safe1,      \* sanitizer run: sanitize(raw)
    safe2,      \* sanitizer run: sanitize(sanitize(raw))
    coll,       \* sanitizer run: add_collision_suffix on the parts of safe1
    spc,        \* sanitizer run: "raw", "sanitized", "resanitized", "done" ("off" in a directory run)
    fs,         \* directory content: path -> content record
    order,      \* the order in which the directory lists its files
    pc,         \* batch driver position ("idle", "loop")
    dry_run,    \* dry_run argument of the running rename_directory
    listing,    \* files returned by list_files for the running batch
    idx,        \* number of listed files already processed
    results,    \* results accumulated by the running rename_directory
    calls,      \* capability calls made by the running batch, in order
    fs0,        \* directory content when the running batch started
    prev,       \* the batches that returned, oldest first
    nfail,      \* failures and interruptions injected so far
    resolved,   \* every (original name, disambiguated name) a collision produced
    list_failed,\* whether the listing of the running batch failed
    runs,       \* every invocation of main that ended, oldest first
    stored,     \* sidecar read: what the sidecar path holds
    backend,    \* sidecar read: "local" or "remote" sidecar store
    rd,         \* sidecar read: what read_sidecar did
    rpc,        \* sidecar read: "stored", "read" ("off" in the other runs)
    remote      \* remote rename: the rclone rename in progress (pc "off" in the other runs)

sanVars == <<raw, safe1, safe2, coll, spc>>
dirVars == <<fs, order, pc, dry_run, listing, idx, results, calls, fs0, prev, nfail, resolved,
             list_failed, runs>>
readVars == <<stored, backend, rd, rpc>>
vars == <<raw, safe1, safe2, coll, spc, fs, order, pc, dry_run, listing, idx, results,
          calls, fs0, prev, nfail, resolved, list_failed, runs, stored, backend, rd, rpc,
          remote>>

----------------------------------------------------------------------------
(* Characters                                                              *)

LOWER == <<"a","b","c","d","e","f","g","h","i","j","k","l","m",
           "n","o","p","q","r","s","t","u","v","w","x","y","z">>
UPPER == <<"A","B","C","D","E","F","G","H","I","J","K","L","M",
           "N","O","P","Q","R","S","T","U","V","W","X","Y","Z">>
DIGITS == <<"0","1","2","3","4","5","6","7","8","9">>
HEXDIGITS == <<"0","1","2","3","4","5","6","7","8","9","a","b","c","d","e","f">>

Range(s) == { s[i] : i \in DOMAIN s }

UPPERCASE == Range(UPPER)

\* 'abcdefghijklmnopqrstuvwxyz0123456789' and the regex class [a-z0-9]
ALNUM == Range(LOWER) \cup Range(DIGITS)

Min(a, b) == IF a < b THEN a ELSE b
Max(a, b) == IF a > b THEN a ELSE b

IndexOf(c, s) == CHOOSE i \in DOMAIN s : s[i] = c

\* str.lower() on one character: A-Z, and the Latin-1 capitals of the inputs
LowerChar(c) ==
    IF c \in UPPERCASE THEN LOWER[IndexOf(c, UPPER)]
    ELSE IF c = "U+00C9" THEN "U+00E9"
    ELSE c

Lower(s) == [i \in DOMAIN s |-> LowerChar(s[i])]

\* concatenation of the sequences ss[lo..hi], by halves
RECURSIVE FlattenRange(_, _, _)
FlattenRange(ss, lo, hi) ==
    IF lo > hi THEN <<>>
    ELSE IF lo = hi THEN ss[lo]
    ELSE LET mid == (lo + hi) \div 2
         IN FlattenRange(ss, lo, mid) \o FlattenRange(ss, mid + 1, hi)

Flatten(ss) == FlattenRange(ss, 1, Len(ss))

MaxOf(set) == CHOOSE i \in set : \A j \in set : j <= i
MinOf(set) == CHOOSE i \in set : \A j \in set : i <= j

\* s[:n] of Python, negative n included
PySlice(s, n) ==
    IF n >= 0 THEN SubSeq(s, 1, Min(n, Len(s)))
    ELSE SubSeq(s, 1, Max(0, Len(s) + n))

\* s.rstrip(chars)
RStrip(s, chars) ==
    LET kept == { i \in DOMAIN s : s[i] \notin chars }
    IN IF kept = {} THEN <<>> ELSE SubSeq(s, 1, MaxOf(kept))

\* s.lstrip(chars)
LStrip(s, chars) ==
    LET kept == { i \in DOMAIN s : s[i] \notin chars }
    IN IF kept = {} THEN <<>> ELSE SubSeq(s, MinOf(kept), Len(s))

\* pattern in s, for a two-character pattern
Contains2(s, a, b) == \E i \in 1..(Len(s) - 1) : s[i] = a /\ s[i + 1] = b

----------------------------------------------------------------------------
(* renamer/core/sanitizer.py                                               *)

MAX_FILENAME_LENGTH == 180

SYSTEM_FILES == {
    <<".","D","S","_","S","t","o","r","e">>,
    <<"T","h","u","m","b","s",".","d","b">>,
    <<"d","e","s","k","t","o","p",".","i","n","i">>,
    <<".","l","o","c","a","l","i","z","e","d">>,
    <<"t","h","u","m","b","s",".","d","b">>,
    <<"D","e","s","k","t","o","p",".","i","n","i">>,
    <<"$","R","E","C","Y","C","L","E",".","B","I","N">>,
    <<"S","y","s","t","e","m"," ","V","o","l","u","m","e"," ",
      "I","n","f","o","r","m","a","t","i","o","n">> }

RESERVED_NAMES ==
    { <<"c","o","n">>, <<"p","r","n">>, <<"a","u","x">>, <<"n","u","l">> }
    \cup { <<"c","o","m", DIGITS[d]>> : d \in 2..10 }
    \cup { <<"l","p","t", DIGITS[d]>> : d \in 2..10 }

\* key, replacement
TRANSLITERATION_MAP == {
    <<"U+00E0", <<"a">> >>, <<"U+00E1", <<"a">> >>, <<"U+00E2", <<"a">> >>,
    <<"U+00E3", <<"a">> >>, <<"U+00E4", <<"a">> >>, <<"U+00E5", <<"a">> >>,
    <<"U+00E6", <<"a","e">> >>,
    <<"U+00E7", <<"c">> >>, <<"U+00E8", <<"e">> >>, <<"U+00E9", <<"e">> >>,
    <<"U+00EA", <<"e">> >>, <<"U+00EB", <<"e">> >>,
    <<"U+00EC", <<"i">> >>, <<"U+00ED", <<"i">> >>, <<"U+00EE", <<"i">> >>,
    <<"U+00EF", <<"i">> >>,
    <<"U+00F1", <<"n">> >>, <<"U+00F2", <<"o">> >>, <<"U+00F3", <<"o">> >>,
    <<"U+00F4", <<"o">> >>, <<"U+00F5", <<"o">> >>, <<"U+00F6", <<"o">> >>,
    <<"U+00F8", <<"o">> >>,
    <<"U+00F9", <<"u">> >>, <<"U+00FA", <<"u">> >>, <<"U+00FB", <<"u">> >>,
    <<"U+00FC", <<"u">> >>,
    <<"U+00FD", <<"y">> >>, <<"U+00FF", <<"y">> >>, <<"U+00DF", <<"s","s">> >> }

\* no name is a system file
is_system_file_never(filename) == FALSE

is_system_file(filename) == filename \in SYSTEM_FILES

\* unicodedata.normalize('NFKC', text): the ligature fi (U+FB01) is the one
\* character of the inputs that NFKC changes
normalize_unicode(text) ==
    Flatten([i \in DOMAIN text |->
                IF text[i] = "U+FB01" THEN <<"f","i">> ELSE <<text[i]>>])

transliterate(text) ==
    Flatten([i \in DOMAIN text |->
                IF \E e \in TRANSLITERATION_MAP : e[1] = text[i]
                THEN (CHOOSE e \in TRANSLITERATION_MAP : e[1] = text[i])[2]
                ELSE <<text[i]>>])

\* positions of '.' in s
Dots(s) == { i \in DOMAIN s : s[i] = "." }
LastDot(s) == MaxOf(Dots(s))

\* filename.rsplit('.', 2)
RSplit2(filename) ==
    IF Dots(filename) = {} THEN <<filename>>
    ELSE LET d2 == LastDot(filename)
             before == SubSeq(filename, 1, d2 - 1)
             last == SubSeq(filename, d2 + 1, Len(filename))
         IN IF Dots(before) = {} THEN <<before, last>>
            ELSE LET d1 == LastDot(before)
                 IN <<SubSeq(before, 1, d1 - 1),
                      SubSeq(before, d1 + 1, Len(before)), last>>

\* '.'.join(parts)
RECURSIVE JoinDot(_)
JoinDot(parts) ==
    IF Len(parts) = 0 THEN <<>>
    ELSE IF Len(parts) = 1 THEN parts[1]
    ELSE parts[1] \o <<".">> \o JoinDot(Tail(parts))

COMPOUND_MARKERS == { <<"t","a","r">>, <<"b","a","c","k","u","p">> }

\* <<base, extension>>
split_filename(filename) ==
    LET parts == RSplit2(filename)
    IN IF Len(parts) = 3 /\ parts[2] \in COMPOUND_MARKERS
       THEN <<parts[1], <<".">> \o parts[2] \o <<".">> \o parts[3]>>
       ELSE IF Len(parts) >= 2
       THEN <<JoinDot(SubSeq(parts, 1, Len(parts) - 1)), <<".">> \o parts[Len(parts)]>>
       ELSE <<filename, <<>> >>

\* one iteration of the character loop of sanitize_base_name on the loop
\* state st = [result, prev_sep]
FilterStep(st, char) ==
    IF char \in ALNUM
    THEN [result |-> Append(st.result, char), prev_sep |-> FALSE]
    ELSE IF char \in {"-", "_"}
    THEN IF ~st.prev_sep /\ st.result # <<>>
         THEN [result |-> Append(st.result, "-"), prev_sep |-> TRUE]
         ELSE st
    ELSE IF char \in {" ", "\t", "\n", "\r"}
    THEN IF ~st.prev_sep /\ st.result # <<>>
         THEN [result |-> Append(st.result, "-"), prev_sep |-> TRUE]
         ELSE st
    ELSE st

\* the loop `for char in name` over name[lo..hi] from loop state st; the
\* range is run as its first half followed by its second half (the test on
\* half makes the first half's state a value before the second half starts)
RECURSIVE FilterLoop(_, _, _, _)
FilterLoop(name, lo, hi, st) ==
    IF lo > hi THEN st
    ELSE IF lo = hi THEN FilterStep(st, name[lo])
    ELSE LET mid == (lo + hi) \div 2
             half == FilterLoop(name, lo, mid, st)
         IN IF half = st THEN FilterLoop(name, mid + 1, hi, st)
            ELSE FilterLoop(name, mid + 1, hi, half)

\* re.sub(r'^[^a-z0-9]+', '', s)
StripLeadingNonAlnum(s) ==
    LET alnums == { i \in DOMAIN s : s[i] \in ALNUM }
    IN IF alnums = {} THEN <<>> ELSE SubSeq(s, MinOf(alnums), Len(s))

\* re.sub(r'[-_]+', '-', s): the first character of every run of '-'/'_'
\* becomes '-', the rest of the run goes
CollapseSeparators(s) ==
    LET first == SelectSeq([i \in DOMAIN s |-> i],
                     LAMBDA i : s[i] \notin {"-", "_"} \/ i = 1 \/ s[i - 1] \notin {"-", "_"})
    IN [k \in DOMAIN first |-> IF s[first[k]] \in {"-", "_"} THEN "-" ELSE s[first[k]]]

sanitize_base_name(name) ==
    LET lowered == transliterate(Lower(normalize_unicode(name)))
        filtered == FilterLoop(lowered, 1, Len(lowered),
                               [result |-> <<>>, prev_sep |-> FALSE]).result
        sanitized == CollapseSeparators(
                        StripLeadingNonAlnum(RStrip(filtered, {"-", "_"})))
    IN IF sanitized = <<>> THEN <<"f","i","l","e">> ELSE sanitized

sanitize_extension(ext) ==
    IF ext = <<>> THEN <<>>
    ELSE LET kept == SelectSeq(Lower(LStrip(ext, {"."})), LAMBDA c : c \in ALNUM)
         IN IF kept # <<>> THEN <<".">> \o kept ELSE <<>>

check_reserved_name(base_name) ==
    IF Lower(base_name) \in RESERVED_NAMES
    THEN <<"f","i","l","e","_">> \o base_name
    ELSE base_name

truncate_if_needed(base_name, extension) ==
    LET max_base_len == MAX_FILENAME_LENGTH - Len(extension)
    IN IF Len(base_name) > max_base_len
       THEN RStrip(PySlice(base_name, max_base_len), {"-", "_"})
       ELSE base_name

sanitize(filename) ==
    LET parts == split_filename(filename)
        safe_ext == sanitize_extension(parts[2])
        safe_base == truncate_if_needed(
                        check_reserved_name(sanitize_base_name(parts[1])), safe_ext)
    IN safe_base \o safe_ext

\* re.match(r'^...$', s): '$' also matches just before a final newline
\* the texts a pattern may end at: s, and s without its final newline
DollarEnds(s) ==
    IF s # <<>> /\ s[Len(s)] = "\n" THEN {s, SubSeq(s, 1, Len(s) - 1)} ELSE {s}

\* [a-z0-9]+
AlnumWord(s) == s # <<>> /\ \A i \in DOMAIN s : s[i] \in ALNUM

\* \.[a-z0-9]+(\.[a-z0-9]+)?
ExtPattern(s) ==
    /\ Len(s) >= 2
    /\ s[1] = "."
    /\ LET r == Tail(s)
       IN \/ AlnumWord(r)
          \/ \E k \in 2..(Len(r) - 1) :
                /\ r[k] = "."
                /\ AlnumWord(SubSeq(r, 1, k - 1))
                /\ AlnumWord(SubSeq(r, k + 1, Len(r)))

\* [a-z0-9][a-z0-9_-]*[a-z0-9] | [a-z0-9]
BasePattern(s) ==
    /\ s # <<>>
    /\ s[1] \in ALNUM
    /\ s[Len(s)] \in ALNUM
    /\ \A i \in DOMAIN s : s[i] \in ALNUM \cup {"_", "-"}

\* '--' in base or '__' in base or '-_' in base or '_-' in base
HasAdjacentSeparators(base) ==
    \/ Contains2(base, "-", "-")
    \/ Contains2(base, "_", "_")
    \/ Contains2(base, "-", "_")
    \/ Contains2(base, "_", "-")

is_safe_filename(filename) ==
    LET parts == split_filename(filename)
        base == parts[1]
        ext == parts[2]
    IN IF filename # Lower(filename) THEN FALSE
       ELSE IF ext # <<>> /\ ~(\E t \in DollarEnds(ext) : ExtPattern(t)) THEN FALSE
       ELSE IF ~(\E t \in DollarEnds(base) : BasePattern(t)) THEN FALSE
       ELSE IF HasAdjacentSeparators(base) THEN FALSE
       ELSE IF Len(filename) > MAX_FILENAME_LENGTH THEN FALSE
       ELSE TRUE

\* every character a modelled filename can hold; the position is its code.
\* U+000C is the form feed, a whitespace character that NFKC leaves alone
CHARSET == LOWER \o UPPER \o DIGITS \o
           <<".", "-", "_", " ", "\t", "\n", "\r", "$", "@",
             "U+00C9", "U+00E9", "U+00DF", "U+FB01", "U+000C">>

CHARS == Range(CHARSET)

CharCode(c) == IF c \in CHARS THEN IndexOf(c, CHARSET) ELSE 0

\* a 16-bit polynomial digest of the characters of s
RECURSIVE DigestRange(_, _, _, _, _)
DigestRange(s, lo, hi, h, mult) ==
    IF lo > hi THEN h
    ELSE IF lo = hi THEN (h * mult + CharCode(s[lo])) % 65536
    ELSE LET mid == (lo + hi) \div 2
             half == DigestRange(s, lo, mid, h, mult)
         IN IF half = h THEN DigestRange(s, mid + 1, hi, h, mult)
            ELSE DigestRange(s, mid + 1, hi, half, mult)

Digest16(s, h, mult) == DigestRange(s, 1, Len(s), h, mult)

Hex4(h) == << HEXDIGITS[((h \div 4096) % 16) + 1], HEXDIGITS[((h \div 256) % 16) + 1],
              HEXDIGITS[((h \div 16) % 16) + 1], HEXDIGITS[(h % 16) + 1] >>

\* hashlib.sha256(original_name.encode('utf-8')).hexdigest()[:8]: eight hex
\* digits that depend on every character of the name.  SHA-256 itself is
\* replaced by two 16-bit polynomial digests.
HashSuffix(original_name) ==
    Hex4(Digest16(original_name, 7, 31)) \o Hex4(Digest16(original_name, 11, 131))

\* the suffix is the digest of the sanitized base
add_collision_suffix_of_base(base_name, extension, original_name) ==
    LET suffix_part == <<"-", "-">> \o HashSuffix(base_name)
        max_base_len == MAX_FILENAME_LENGTH - Len(extension) - Len(suffix_part)
        base == IF Len(base_name) > max_base_len
                THEN RStrip(PySlice(base_name, max_base_len), {"-", "_"})
                ELSE base_name
    IN base \o suffix_part \o extension

add_collision_suffix(base_name, extension, original_name) ==
    LET suffix_part == <<"-", "-">> \o HashSuffix(original_name)
        max_base_len == MAX_FILENAME_LENGTH - Len(extension) - Len(suffix_part)
        base == IF Len(base_name) > max_base_len
                THEN RStrip(PySlice(base_name, max_base_len), {"-", "_"})
                ELSE base_name
    IN base \o suffix_part \o extension

----------------------------------------------------------------------------
(* Raw filenames handed to the sanitizer                                   *)

MaxChunks == 3

CHUNKS == { <<"a">>, <<"B">>, <<"7">>, <<"-">>, <<"_">>, <<" ">>, <<".">>, <<"@">>,
            <<"U+00C9">>, <<"U+00DF">>, <<"\n">>, <<"U+000C">>, <<"c","o","n">>,
            <<".","t","a","r",".">> }

RECURSIVE ChunkSeqs(_)
ChunkSeqs(n) ==
    IF n = 0 THEN { <<>> }
    ELSE LET shorter == ChunkSeqs(n - 1)
         IN shorter \cup { s \o c : s \in shorter, c \in CHUNKS }

Run(c, n) == [i \in 1..n |-> c]

\* run lengths on both sides of each length threshold of the sanitizer
LONG_RUNS == {168, 169, 170, 176, 178, 179, 180, 181}

AFFIXES == { <<>>, <<"a">>, <<"a", ".">>, <<".">>, <<"-", "a">>, <<"a", "-">>,
             <<".", "a">>, <<"c","o","n",".">>, <<"c","o","n","-","a",".">> }

LongNames == { pre \o Run("x", n) \o post : pre \in AFFIXES, n \in LONG_RUNS,
                                            post \in AFFIXES }

RawNames == ChunkSeqs(MaxChunks) \cup LongNames

----------------------------------------------------------------------------
(* The sanitizer applied to one raw filename                               *)

NoFile == [n \in {} |-> 0]

\* no sidecar is being read
ReadIdle ==
    /\ stored = "absent"
    /\ backend = "local"
    /\ rd = "none"
    /\ rpc = "off"

\* no remote rename is in progress
NoRemote ==
    [pc |-> "off", old_path |-> [parent |-> "", name |-> <<>>],
     new_path |-> [parent |-> "", name |-> <<>>],
     content |-> [kind |-> "none"], commands |-> <<>>, done |-> {}]

RemoteIdle == remote = NoRemote

DirIdle ==
    /\ fs = NoFile
    /\ order = "ascending"
    /\ pc = "idle"
    /\ dry_run = FALSE
    /\ listing = <<>>
    /\ idx = 0
    /\ results = <<>>
    /\ calls = <<>>
    /\ fs0 = NoFile
    /\ prev = <<>>
    /\ nfail = 0
    /\ resolved = {}
    /\ list_failed = FALSE
    /\ runs = <<>>

SanInit ==
    /\ raw \in RawNames
    /\ safe1 = <<>>
    /\ safe2 = <<>>
    /\ coll = <<>>
    /\ spc = "raw"
    /\ DirIdle
    /\ ReadIdle
    /\ RemoteIdle

\* sanitizer.sanitize(raw)
Sanitize ==
    /\ spc = "raw"
    /\ safe1' = sanitize(raw)
    /\ spc' = "sanitized"
    /\ UNCHANGED <<raw, safe2, coll>>
    /\ UNCHANGED dirVars
    /\ UNCHANGED readVars
    /\ UNCHANGED remote

\* sanitizer.sanitize(safe1)
SanitizeAgain ==
    /\ spc = "sanitized"
    /\ safe2' = sanitize(safe1)
    /\ spc' = "resanitized"
    /\ UNCHANGED <<raw, safe1, coll>>
    /\ UNCHANGED dirVars
    /\ UNCHANGED readVars
    /\ UNCHANGED remote

\* base.py:129-130 on the sanitized name
ResolveCollision ==
    /\ spc = "resanitized"
    /\ LET parts == split_filename(safe1)
       IN coll' = add_collision_suffix(parts[1], parts[2], raw)
    /\ spc' = "done"
    /\ UNCHANGED <<raw, safe1, safe2>>
    /\ UNCHANGED dirVars
    /\ UNCHANGED readVars
    /\ UNCHANGED remote

SanNext == Sanitize \/ SanitizeAgain \/ ResolveCollision

SanSpec == SanInit /\ [][SanNext]_vars

----------------------------------------------------------------------------
(* Paths, directory content and results                                    *)

Path(parent, name) == [parent |-> parent, name |-> name]

\* the directory rename_directory is run on, and a directory below it
TargetDir == "dir"
SubDir == "dir/sub"

\* None, where a path is expected
NoPath == Path("", <<>>)

\* Path(str(path) + '.meta.json')
SidecarPathOf(path) ==
    Path(path.parent, path.name \o <<".","m","e","t","a",".","j","s","o","n">>)

\* what a regular file holds: the name it was created under stands for its bytes
DataContent(name) ==
    [kind |-> "data", original_filename |-> name, safe_filename |-> <<>>]

\* SidecarContent.from_metadata(FileMetadata(original_name, safe_name, ...))
SidecarContent(original_name, safe_name) ==
    [kind |-> "meta", original_filename |-> original_name, safe_filename |-> safe_name]

\* RenameResult.success
success(original_path, new_path, sidecar_path) ==
    [original_path |-> original_path, success |-> TRUE, new_path |-> new_path,
     sidecar_path |-> sidecar_path, error |-> "", skipped |-> FALSE]

\* RenameResult.skipped
skipped(original_path, reason) ==
    [original_path |-> original_path, success |-> TRUE, new_path |-> NoPath,
     sidecar_path |-> NoPath, error |-> reason, skipped |-> TRUE]

\* RenameResult.failure
failure(original_path, error) ==
    [original_path |-> original_path, success |-> FALSE, new_path |-> NoPath,
     sidecar_path |-> NoPath, error |-> error, skipped |-> FALSE]

IsSuccess(r) == r.success /\ ~r.skipped
IsSkipped(r) == r.skipped
IsFailed(r) == ~r.success

\* one capability call made for file: its operation, its path argument (the
\* destination for a rename) and whether it returned
Call(op, file, path, ok) == [op |-> op, file |-> file, path |-> path, ok |-> ok]

----------------------------------------------------------------------------
(* renamer/operations/local.py, renamer/core/sidecar.py: the capabilities  *)

\* LocalFileOperations.file_exists
file_exists(dir, path) == path \in DOMAIN dir

\* LocalFileRenamer._perform_rename: old_path.rename(new_path); an existing
\* new_path is replaced.  Defined when old_path exists.
perform_rename(dir, old_path, new_path) ==
    [p \in (DOMAIN dir \ {old_path}) \cup {new_path} |->
        IF p = new_path THEN dir[old_path] ELSE dir[p]]

\* LocalSidecarWriter.write_sidecar: open(sidecar_path, 'w') and dump
write_sidecar(dir, file_path, content) ==
    [p \in DOMAIN dir \cup {SidecarPathOf(file_path)} |->
        IF p = SidecarPathOf(file_path) THEN content ELSE dir[p]]

----------------------------------------------------------------------------
(* renamer/operations/base.py: BaseFileRenamer.rename_file                 *)

\* the step of rename_file in which an exception is raised, if any, named by
\* the capability called in that step
FailPoints == {"none", "exists", "rename", "hash", "size", "sidecar"}

\* what one invocation hands back to the model: the RenameResult, the
\* directory afterwards, the capability calls made, the collision resolved
\* whether the chosen capability failure was raised, and whether an
\* exception left rename_file
Outcome(result, dir, made, res, raised, escaped) ==
    [result |-> result, fs |-> dir, calls |-> made, resolved |-> res,
     raised |-> raised, escaped |-> escaped]

\* what is raised: an error (a subclass of Exception) or the interruption
\* of the process by the user (KeyboardInterrupt, a BaseException)
ExcKinds == {"Exception", "KeyboardInterrupt"}

\* the error is caught and reported as a Success
OnException_as_success(file_path, error, exc) ==
    [caught |-> exc = "Exception", result |-> success(file_path, NoPath, NoPath)]

\* the except clause lets the error through
OnException_reraise(file_path, error, exc) ==
    [caught |-> FALSE, result |-> failure(file_path, error)]

\* base.py:172-174, `except Exception as e`: an Exception is caught and
\* becomes a Failed result; a KeyboardInterrupt is not an Exception
OnException(file_path, error, exc) ==
    [caught |-> exc = "Exception", result |-> failure(file_path, error)]

\* an exception of kind exc raised inside the try block of rename_file
Raise(file_path, error, exc, dir, made, res, raised) ==
    LET handled == OnException(file_path, error, exc)
    IN Outcome(handled.result, dir, made, res, raised, ~handled.caught)

\* the dry-run test is missing
DryRunStops_never(dry) == FALSE

\* base.py:135, `if dry_run:`
DryRunStops(dry) == dry

\* the resolver is applied again to the name it produced
CollisionName_twice(safe_name, filename) ==
    LET parts == split_filename(safe_name)
        once == split_filename(add_collision_suffix(parts[1], parts[2], filename))
    IN add_collision_suffix(once[1], once[2], filename)

\* base.py:129-131: the disambiguated name for an occupied destination
CollisionName(safe_name, filename) ==
    LET parts == split_filename(safe_name)
    IN add_collision_suffix(parts[1], parts[2], filename)

\* the hash is computed on the path the file had before the rename
HashedPath_old(file_path, new_path) == file_path

\* base.py:148, `self.compute_hash(new_path)`: the path that is hashed
HashedPath(file_path, new_path) == new_path

\* the rename is undone when a later step fails
OnFailureAfterRename_rollback(before, after) == before

\* base.py:172-174: the except clause logs and returns a Failed result; the
\* directory stays as the rename left it
OnFailureAfterRename(before, after) == after

\* base.py:143-170: steps 5 to 7 of a live rename
Execute(dir, file_path, new_path, safe_name, made, res, failAt, exc) ==
    LET filename == file_path.name
        renameOk == failAt # "rename" /\ file_path \in DOMAIN dir
        c5 == Append(made, Call("rename", file_path, new_path, renameOk))
    IN IF ~renameOk
       THEN Raise(file_path, "rename", IF failAt = "rename" THEN exc ELSE "Exception",
                  dir, c5, res, failAt = "rename")
       ELSE
       LET d5 == perform_rename(dir, file_path, new_path)
           left == OnFailureAfterRename(dir, d5)
           c6 == Append(c5, Call("hash", file_path, HashedPath(file_path, new_path),
                                 failAt # "hash"))
       IN IF failAt = "hash"
          THEN Raise(file_path, "hash", exc, left, c6, res, TRUE)
          ELSE
          LET c6b == Append(c6, Call("size", file_path, new_path, failAt # "size"))
          IN IF failAt = "size"
             THEN Raise(file_path, "size", exc, left, c6b, res, TRUE)
             ELSE
             LET c7 == Append(c6b, Call("write_sidecar", file_path, new_path,
                                        failAt # "sidecar"))
             IN IF failAt = "sidecar"
                THEN Raise(file_path, "sidecar", exc, left, c7, res, TRUE)
                ELSE Outcome(success(file_path, new_path, SidecarPathOf(new_path)),
                             write_sidecar(d5, new_path,
                                           SidecarContent(filename, safe_name)),
                             c7, res, FALSE, FALSE)

\* every destination is put into the directory the batch runs on
ParentOf_target(file_path) == TargetDir

\* base.py:124, `parent = file_path.parent`
ParentOf(file_path) == file_path.parent

rename_file(dir, file_path, dry, failAt, exc) ==
    LET filename == file_path.name
        parent == ParentOf(file_path)
    IN IF is_system_file(filename)
       THEN Outcome(skipped(file_path, "System file"), dir, <<>>, {}, FALSE, FALSE)
       ELSE IF is_safe_filename(filename)
       THEN Outcome(skipped(file_path, "Already safe"), dir, <<>>, {}, FALSE, FALSE)
       ELSE
       LET safe_name == sanitize(filename)
           candidate == Path(parent, safe_name)
           c4 == <<Call("exists", file_path, candidate, failAt # "exists")>>
       IN IF failAt = "exists"
          THEN Raise(file_path, "exists", exc, dir, c4, {}, TRUE)
          ELSE
          LET collision == file_exists(dir, candidate)
              final_name == IF collision THEN CollisionName(safe_name, filename)
                            ELSE safe_name
              new_path == Path(parent, final_name)
              res == IF collision THEN { <<filename, final_name>> } ELSE {}
          IN IF DryRunStops(dry)
             THEN Outcome(success(file_path, new_path, SidecarPathOf(new_path)),
                          dir, c4, res, FALSE, FALSE)
             ELSE Execute(dir, file_path, new_path, final_name, c4, res, failAt, exc)

----------------------------------------------------------------------------
(* The directory the batches run over                                      *)

MaxFiles == 2
MaxBatches == 2
MaxFailures == 1

\* names that sanitize to the same name, that name itself, a reserved name
\* and two system files, one of them a safe name
FilePool == { <<"A",".","t">>, <<"a"," ",".","t">>, <<"a",".","t">>,
              <<"c","o","n">>, <<"T","h","u","m","b","s",".","d","b">>,
              <<"t","h","u","m","b","s",".","d","b">> }

\* s before t in the order of character codes
RECURSIVE NameLess(_, _)
NameLess(s, t) ==
    IF s = <<>> THEN t # <<>>
    ELSE IF t = <<>> THEN FALSE
    ELSE IF Head(s) # Head(t) THEN CharCode(Head(s)) < CharCode(Head(t))
    ELSE NameLess(Tail(s), Tail(t))

\* p before q: the files of the directory itself by name, then those of the
\* directory below it
PathLess(p, q) ==
    IF p.parent = q.parent THEN NameLess(p.name, q.name)
    ELSE p.parent = TargetDir

RECURSIVE SortedPaths(_)
SortedPaths(paths) ==
    IF paths = {} THEN <<>>
    ELSE LET first == CHOOSE p \in paths :
                        \A q \in paths \ {p} : PathLess(p, q)
         IN <<first>> \o SortedPaths(paths \ {first})

Reverse(s) == [i \in DOMAIN s |-> s[Len(s) + 1 - i]]

\* LocalFileOperations.list_files: every file of the directory, in the
\* directory's order (ascending or descending by name here)
list_files(dir, ord) ==
    IF ord = "ascending" THEN SortedPaths(DOMAIN dir)
    ELSE Reverse(SortedPaths(DOMAIN dir))

\* LocalFileOperations.list_files on a directory that cannot be read: the
\* OSError is caught and `files`, still empty, is returned (local.py:95-98;
\* remote.py:178-181 does the same with the error of rclone)
list_files_unreachable == <<>>

Init ==
    /\ raw = <<>>
    /\ safe1 = <<>>
    /\ safe2 = <<>>
    /\ coll = <<>>
    /\ spc = "off"
    /\ \E names \in SUBSET FilePool :
          /\ Cardinality(names) <= MaxFiles
          /\ fs = [p \in { Path(TargetDir, n) : n \in names } |-> DataContent(p.name)]
    /\ order \in {"ascending", "descending"}
    /\ pc = "idle"
    /\ dry_run = FALSE
    /\ listing = <<>>
    /\ idx = 0
    /\ results = <<>>
    /\ calls = <<>>
    /\ fs0 = NoFile
    /\ prev = <<>>
    /\ nfail = 0
    /\ resolved = {}
    /\ list_failed = FALSE
    /\ runs = <<>>
    /\ ReadIdle
    /\ RemoteIdle

\* main, renamer_cli.py:135-166, up to rename_directory(directory,
\* dry_run=dry) and its listing, base.py:193-196.  With listOk false the
\* target cannot be listed.
StartBatch(dry, listOk) ==
    /\ pc = "idle"
    /\ Len(runs) < MaxBatches
    /\ ~listOk => nfail < MaxFailures
    /\ dry_run' = dry
    /\ listing' = IF listOk THEN list_files(fs, order) ELSE list_files_unreachable
    /\ list_failed' = ~listOk
    /\ nfail' = IF listOk THEN nfail ELSE nfail + 1
    /\ idx' = 0
    /\ results' = <<>>
    /\ calls' = <<>>
    /\ fs0' = fs
    /\ pc' = "loop"
    /\ UNCHANGED <<fs, order, prev, resolved, runs>>
    /\ UNCHANGED sanVars
    /\ UNCHANGED readVars
    /\ UNCHANGED remote

\* base.py:198-200, one iteration of the loop: rename_file on the next listed
\* file.  An exception leaving rename_file ends the loop (base.py:202-203).
RenameFile(failAt) ==
    /\ pc = "loop"
    /\ idx < Len(listing)
    /\ failAt # "none" => nfail < MaxFailures
    /\ \E out \in { rename_file(fs, listing[idx + 1], dry_run, failAt, "Exception") } :
          /\ failAt # "none" => out.raised
          /\ fs' = out.fs
          /\ calls' = calls \o out.calls
          /\ resolved' = resolved \cup out.resolved
          /\ nfail' = IF out.raised THEN nfail + 1 ELSE nfail
          /\ IF out.escaped
             THEN /\ results' = results
                  /\ idx' = Len(listing)
             ELSE /\ results' = Append(results, out.result)
                  /\ idx' = idx + 1
    /\ UNCHANGED <<order, pc, dry_run, listing, fs0, prev, list_failed, runs>>
    /\ UNCHANGED sanVars
    /\ UNCHANGED readVars
    /\ UNCHANGED remote

\* every Failed result is counted as a renamed file too
get_stats_renamed_all(rs) ==
    [total_files |-> Len(rs),
     renamed |-> Cardinality({ i \in DOMAIN rs : ~rs[i].skipped }),
     skipped |-> Cardinality({ i \in DOMAIN rs : rs[i].skipped }),
     errors |-> Cardinality({ i \in DOMAIN rs : ~rs[i].success })]

\* BaseFileRenamer.get_stats: OperationStats(total_files, renamed, skipped,
\* errors)
get_stats(rs) ==
    [total_files |-> Len(rs),
     renamed |-> Cardinality({ i \in DOMAIN rs : rs[i].success /\ ~rs[i].skipped }),
     skipped |-> Cardinality({ i \in DOMAIN rs : rs[i].skipped }),
     errors |-> Cardinality({ i \in DOMAIN rs : ~rs[i].success })]

\* OperationStats.success_rate: the quotient renamed / total_files as the
\* fraction <<numerator, denominator>>, 0.0 as <<0, 1>>
success_rate(stats) ==
    IF stats.total_files = 0 THEN <<0, 1>>
    ELSE <<stats.renamed, stats.total_files>>

\* renamer_cli.py:191-196: the exit code of a batch that returned
ExitCode(stats) == IF stats.errors > 0 THEN 1 ELSE 0

\* renamer_cli.py:198-201: the exit code after KeyboardInterrupt
EXIT_INTERRUPTED == 130

NoStats == [total_files |-> 0, renamed |-> 0, skipped |-> 0, errors |-> 0]

\* one invocation of main that ended: how it ended ("returned" when
\* rename_directory returned its list, "interrupted" when KeyboardInterrupt
\* reached main), its exit code, the list main received (received is FALSE
\* and returned is empty when it received none), the statistics it printed,
\* and what the batch did
Invocation(ended, exit_code, received, returned, stats, in_flight, dir) ==
    [ended |-> ended, exit_code |-> exit_code, received |-> received,
     returned |-> returned, stats |-> stats, in_flight |-> in_flight,
     dry_run |-> dry_run, list_failed |-> list_failed, listing |-> listing,
     results |-> results, calls |-> calls, fs_before |-> fs0, fs_after |-> dir]

\* base.py:205, `return results`, and the rest of main: the statistics and
\* the exit code, renamer_cli.py:168-196
FinishBatch ==
    /\ pc = "loop"
    /\ idx = Len(listing)
    /\ prev' = Append(prev, [dry_run |-> dry_run, listing |-> listing,
                             results |-> results, calls |-> calls,
                             fs_before |-> fs0, fs_after |-> fs])
    /\ \E stats \in { get_stats(results) } :
          runs' = Append(runs, Invocation("returned", ExitCode(stats), TRUE, results,
                                          stats, NoPath, fs))
    /\ pc' = "idle"
    /\ listing' = <<>>
    /\ list_failed' = FALSE
    /\ idx' = 0
    /\ results' = <<>>
    /\ calls' = <<>>
    /\ fs0' = NoFile
    /\ UNCHANGED <<fs, order, dry_run, nfail, resolved>>
    /\ UNCHANGED sanVars
    /\ UNCHANGED readVars
    /\ UNCHANGED remote

\* KeyboardInterrupt raised while the loop of rename_directory runs: in the
\* step `at` of rename_file on the next listed file, or between two files
\* (at = "none").  Neither `except Exception` (base.py:172, base.py:202)
\* catches it; main catches it and returns 130 (renamer_cli.py:198-201).
Interrupt(at) ==
    /\ pc = "loop"
    /\ nfail < MaxFailures
    /\ at # "none" => idx < Len(listing)
    /\ \E out \in { IF at = "none"
                    THEN Outcome(failure(NoPath, "none"), fs, <<>>, {}, TRUE, TRUE)
                    ELSE rename_file(fs, listing[idx + 1], dry_run, at,
                                     "KeyboardInterrupt") } :
          /\ out.raised
          /\ out.escaped
          /\ fs' = out.fs
          /\ resolved' = resolved \cup out.resolved
          /\ runs' = Append(runs,
                       [Invocation("interrupted", EXIT_INTERRUPTED, FALSE, <<>>, NoStats,
                                   IF at = "none" THEN NoPath ELSE listing[idx + 1],
                                   out.fs)
                          EXCEPT !.calls = calls \o out.calls])
    /\ pc' = "idle"
    /\ listing' = <<>>
    /\ list_failed' = FALSE
    /\ idx' = 0
    /\ results' = <<>>
    /\ calls' = <<>>
    /\ fs0' = NoFile
    /\ nfail' = nfail + 1
    /\ UNCHANGED <<order, dry_run, prev>>
    /\ UNCHANGED sanVars
    /\ UNCHANGED readVars
    /\ UNCHANGED remote

\* the same start, over a directory tree: a name in the directory and in the
\* directory below it, the name it sanitizes to, and the name the collision
\* resolver gives it, left in the directory by an earlier run
TreePool ==
    { Path(TargetDir, <<"A",".","t">>), Path(TargetDir, <<"a",".","t">>),
      Path(TargetDir, CollisionName(<<"a",".","t">>, <<"A",".","t">>)),
      Path(SubDir, <<"A",".","t">>) }

TreeInit ==
    /\ raw = <<>>
    /\ safe1 = <<>>
    /\ safe2 = <<>>
    /\ coll = <<>>
    /\ spc = "off"
    /\ \E paths \in SUBSET TreePool :
          /\ Cardinality(paths) <= MaxFiles + 1
          /\ fs = [p \in paths |-> DataContent(p.name)]
    /\ order \in {"ascending", "descending"}
    /\ pc = "idle"
    /\ dry_run = FALSE
    /\ listing = <<>>
    /\ idx = 0
    /\ results = <<>>
    /\ calls = <<>>
    /\ fs0 = NoFile
    /\ prev = <<>>
    /\ nfail = 0
    /\ resolved = {}
    /\ list_failed = FALSE
    /\ runs = <<>>
    /\ ReadIdle
    /\ RemoteIdle

\* batches over a target that can be listed, run to their end
Next ==
    \/ \E dry \in BOOLEAN : StartBatch(dry, TRUE)
    \/ \E failAt \in FailPoints : RenameFile(failAt)
    \/ FinishBatch

Spec == Init /\ [][Next]_vars

\* the same batches over the directory tree, listed with recursive=True
TreeSpec == TreeInit /\ [][Next]_vars

\* the same batches, and those over a target that cannot be listed and those
\* the user interrupts
MainNext ==
    \/ Next
    \/ \E dry \in BOOLEAN : StartBatch(dry, FALSE)
    \/ \E at \in FailPoints : Interrupt(at)

MainSpec == Init /\ [][MainNext]_vars

----------------------------------------------------------------------------
(* renamer/core/sidecar.py: read_sidecar on one stored sidecar             *)

\* 'it.infrastructures.filemeta.v1'
SCHEMA == "it.infrastructures.filemeta.v1"

\* the value of a key of a stored JSON object: "missing" when the object
\* has no such key, "null" for the JSON null
SchemaValues == {"missing", "null", "other.v2", SCHEMA}
NameValues == {"missing", "A.t"}
AlgorithmValues == {"missing", "sha256", "md5"}

\* a stored JSON object
StoredObjects ==
    { [kind |-> "object", schema |-> sc, original_filename |-> o,
       safe_filename |-> sf, hash_algorithm |-> alg] :
        sc \in SchemaValues, o \in NameValues, sf \in NameValues,
        alg \in AlgorithmValues }

\* JSON texts that are not objects
NonObjectKinds == {"null", "boolean", "number", "string", "array"}

\* what the sidecar path can hold: nothing, something that cannot be opened
\* or fetched, bytes that are not UTF-8, text that is not JSON, a JSON value
\* that is not an object, or a JSON object
StoredContents ==
    { [kind |-> k] : k \in {"absent", "unreadable", "not_utf8", "not_json"}
                            \cup NonObjectKinds }
    \cup StoredObjects

Backends == {"local", "remote"}

\* the exceptions the except clause of read_sidecar names: sidecar.py:102
\* for the local store, sidecar.py:211 for the remote one
CaughtByRead(store) ==
    IF store = "local" THEN {"IOError", "JSONDecodeError", "KeyError"}
    ELSE {"CalledProcessError", "JSONDecodeError", "KeyError"}

\* the exception raised in the try block of read_sidecar, "none" when it
\* reaches its return: opening or fetching the content, decoding it as
\* UTF-8, json.load, and data.get on the parsed value
RaisedByRead(store, content) ==
    IF content.kind \in {"absent", "unreadable"}
    THEN IF store = "local" THEN "IOError" ELSE "CalledProcessError"
    ELSE IF content.kind = "not_utf8" THEN "UnicodeDecodeError"
    ELSE IF content.kind = "not_json" THEN "JSONDecodeError"
    ELSE IF content.kind \in NonObjectKinds THEN "AttributeError"
    ELSE "none"

\* data.get(key, default)
GetOr(value, default) == IF value = "missing" THEN default ELSE value

ReadNone == [kind |-> "None"]
ReadRaised(error) == [kind |-> "raised", error |-> error]

\* LocalSidecarWriter.read_sidecar (store = "local") and
\* RcloneSidecarWriter.read_sidecar (store = "remote")
read_sidecar(store, content) ==
    IF store = "local" /\ content.kind = "absent" THEN ReadNone
    ELSE LET error == RaisedByRead(store, content)
         IN IF error # "none"
            THEN IF error \in CaughtByRead(store) THEN ReadNone ELSE ReadRaised(error)
            ELSE IF content.schema # SCHEMA THEN ReadNone
            ELSE [kind |-> "record",
                  schema |-> content.schema,
                  original_filename |-> GetOr(content.original_filename, ""),
                  safe_filename |-> GetOr(content.safe_filename, ""),
                  hash_algorithm |-> GetOr(content.hash_algorithm,
                                           IF store = "local" THEN "sha256" ELSE "md5")]

ReadInit ==
    /\ raw = <<>>
    /\ safe1 = <<>>
    /\ safe2 = <<>>
    /\ coll = <<>>
    /\ spc = "off"
    /\ DirIdle
    /\ stored \in StoredContents
    /\ backend \in Backends
    /\ rd = "none"
    /\ rpc = "stored"
    /\ RemoteIdle

\* read_sidecar(file_path) on the stored content
ReadSidecar ==
    /\ rpc = "stored"
    /\ rd' = read_sidecar(backend, stored)
    /\ rpc' = "read"
    /\ UNCHANGED <<stored, backend>>
    /\ UNCHANGED sanVars
    /\ UNCHANGED dirVars
    /\ UNCHANGED remote

ReadNext == ReadSidecar

ReadSpec == ReadInit /\ [][ReadNext]_vars

----------------------------------------------------------------------------
(* renamer/operations/remote.py: RemoteFileRenamer._perform_rename, the    *)
(* rename of one remote file as copyto, lsf, deletefile                    *)

\* the rclone command that follows a command
NextCommand(step) ==
    IF step = "copyto" THEN "lsf"
    ELSE IF step = "lsf" THEN "deletefile"
    ELSE "returned"

\* the error of a command is ignored
AfterCommand_ignore_error(step, ok) == NextCommand(step)

\* remote.py:243-260: _run_rclone runs with check=True, so a command that
\* fails raises CalledProcessError, which leaves the try block and is raised
\* again as IOError; a command that returns is followed by the next one
AfterCommand(step, ok) == IF ok THEN NextCommand(step) ELSE "raised"

\* remote.py:249-250, `if not result.stdout.strip(): raise IOError`
CopyVerified(listed) == listed

\* the files of the remote directory rename_file would hand to
\* _perform_rename (base.py:110-117: neither system files nor safe names)
Renamable(dir) ==
    { p \in DOMAIN dir : ~is_system_file(p.name) /\ ~is_safe_filename(p.name) }

\* one rclone command that was run and whether it returned
Command(cmd, ok, out) == [cmd |-> cmd, ok |-> ok, out |-> out]

RemoteInit ==
    /\ raw = <<>>
    /\ safe1 = <<>>
    /\ safe2 = <<>>
    /\ coll = <<>>
    /\ spc = "off"
    /\ \E names \in SUBSET FilePool :
          /\ Cardinality(names) <= MaxFiles
          /\ fs = [p \in { Path(TargetDir, n) : n \in names } |-> DataContent(p.name)]
    /\ order = "ascending"
    /\ pc = "idle"
    /\ dry_run = FALSE
    /\ listing = <<>>
    /\ idx = 0
    /\ results = <<>>
    /\ calls = <<>>
    /\ fs0 = NoFile
    /\ prev = <<>>
    /\ nfail = 0
    /\ resolved = {}
    /\ list_failed = FALSE
    /\ runs = <<>>
    /\ ReadIdle
    /\ RemoteIdle

\* what the remote rename leaves alone
remoteFrame == <<order, pc, dry_run, listing, idx, results, calls, fs0, prev, nfail,
                 resolved, list_failed, runs>>

\* rename_file reaches _perform_rename(old_path, new_path) for a file it has
\* not tried yet (base.py:144); new_path is the destination of steps 3 and 4
RemoteRename ==
    /\ remote.pc \in {"off", "returned", "raised"}
    /\ \E old_path \in Renamable(fs) \ remote.done :
          remote' = [pc |-> "copyto", old_path |-> old_path,
                     new_path |-> rename_file(fs, old_path, TRUE, "none",
                                              "Exception").result.new_path,
                     content |-> fs[old_path], commands |-> <<>>,
                     done |-> remote.done \cup {old_path}]
    /\ UNCHANGED fs
    /\ UNCHANGED remoteFrame
    /\ UNCHANGED sanVars
    /\ UNCHANGED readVars

\* remote.py:245, rclone copyto old_path new_path: the destination holds what
\* the source holds when the command returns, and nothing changes when it
\* fails
RcloneCopyto(ok) ==
    /\ remote.pc = "copyto"
    /\ fs' = IF ok
             THEN [p \in DOMAIN fs \cup {remote.new_path} |->
                     IF p = remote.new_path THEN fs[remote.old_path] ELSE fs[p]]
             ELSE fs
    /\ remote' = [remote EXCEPT !.pc = AfterCommand("copyto", ok),
                                !.commands = Append(@, Command("copyto", ok, ""))]
    /\ UNCHANGED remoteFrame
    /\ UNCHANGED sanVars
    /\ UNCHANGED readVars

\* remote.py:248-250, rclone lsf --files-only new_path: the command fails, or
\* it prints the name of the file, or it prints nothing (the file is not
\* there, or the remote does not list it yet)
RcloneLsf(out) ==
    /\ remote.pc = "lsf"
    /\ out = "listed" => remote.new_path \in DOMAIN fs
    /\ remote' = [remote EXCEPT
                     !.pc = IF out = "error" THEN AfterCommand("lsf", FALSE)
                            ELSE IF ~CopyVerified(out = "listed") THEN "raised"
                            ELSE AfterCommand("lsf", TRUE),
                     !.commands = Append(@, Command("lsf", out # "error", out))]
    /\ UNCHANGED fs
    /\ UNCHANGED remoteFrame
    /\ UNCHANGED sanVars
    /\ UNCHANGED readVars

\* remote.py:253, rclone deletefile old_path
RcloneDeletefile(ok) ==
    /\ remote.pc = "deletefile"
    /\ fs' = IF ok THEN [p \in DOMAIN fs \ {remote.old_path} |-> fs[p]] ELSE fs
    /\ remote' = [remote EXCEPT !.pc = AfterCommand("deletefile", ok),
                                !.commands = Append(@, Command("deletefile", ok, ""))]
    /\ UNCHANGED remoteFrame
    /\ UNCHANGED sanVars
    /\ UNCHANGED readVars

RemoteNext ==
    \/ RemoteRename
    \/ \E ok \in BOOLEAN : RcloneCopyto(ok)
    \/ \E out \in {"listed", "empty", "error"} : RcloneLsf(out)
    \/ \E ok \in BOOLEAN : RcloneDeletefile(ok)

RemoteSpec == RemoteInit /\ [][RemoteNext]_vars

----------------------------------------------------------------------------
(* Properties                                                              *)

Sanitized == spc \in {"sanitized", "resanitized", "done"}

\* every batch that ran: the ones that returned, then the running one
Batches ==
    IF pc = "loop"
    THEN Append(prev, [dry_run |-> dry_run, listing |-> listing, results |-> results,
                       calls |-> calls, fs_before |-> fs0, fs_after |-> fs])
    ELSE prev

NoCallFailed(batch) == \A i \in DOMAIN batch.calls : batch.calls[i].ok

\* destination names a batch reported
ReportedNames(batch) ==
    { batch.results[i].new_path.name :
        i \in { j \in DOMAIN batch.results : IsSuccess(batch.results[j]) } }

\* destination names a batch renamed files to
RenamedNames(batch) ==
    { batch.calls[i].path.name :
        i \in { j \in DOMAIN batch.calls :
                  batch.calls[j].op = "rename" /\ batch.calls[j].ok } }

\* C1: a live batch that follows a live batch whose results were all Success
\* or Skipped, with no capability failure, skips every file and makes no
\* rename, hash or sidecar-write call.
C1_SecondRunIsNoOp ==
    \A k \in 1..(Len(prev) - 1) :
        ( /\ ~prev[k].dry_run
          /\ ~prev[k + 1].dry_run
          /\ \A i \in DOMAIN prev[k].results : prev[k].results[i].success
          /\ NoCallFailed(prev[k + 1]) )
        => /\ \A i \in DOMAIN prev[k + 1].results : IsSkipped(prev[k + 1].results[i])
           /\ \A i \in DOMAIN prev[k + 1].calls :
                 prev[k + 1].calls[i].op \notin {"rename", "hash", "write_sidecar"}

\* C2: the destination names a dry-run batch reports are the destination
\* names the live batch that follows it on the same directory, with the same
\* listing and no capability failure, renames files to.
C2_DryRunPredictsLiveRun ==
    \A k \in 1..(Len(prev) - 1) :
        ( /\ prev[k].dry_run
          /\ ~prev[k + 1].dry_run
          /\ prev[k].fs_before = prev[k + 1].fs_before
          /\ prev[k].listing = prev[k + 1].listing
          /\ NoCallFailed(prev[k])
          /\ NoCallFailed(prev[k + 1]) )
        => ReportedNames(prev[k]) = RenamedNames(prev[k + 1])

\* C3: while and after a dry-run batch the directory is what it was when the
\* batch started, and the only capability calls of the batch are existence
\* probes.
C3_DryRunLeavesStorageUnchanged ==
    \A k \in DOMAIN Batches :
        Batches[k].dry_run
        => /\ Batches[k].fs_after = Batches[k].fs_before
           /\ \A i \in DOMAIN Batches[k].calls : Batches[k].calls[i].op = "exists"

\* a dry-run batch returned that probed a destination and reported a rename
C3_Witness ==
    \E k \in DOMAIN prev :
        /\ prev[k].dry_run
        /\ prev[k].calls # <<>>
        /\ \E i \in DOMAIN prev[k].results : IsSuccess(prev[k].results[i])

\* C4: a batch holds one result per listed file processed so far, in listing
\* order, and all of them when it returns; a file for which a capability call
\* raised has a Failed result.
C4_OneOutcomePerListedFile ==
    /\ pc = "loop" => Len(results) = idx
    /\ \A k \in DOMAIN prev : Len(prev[k].results) = Len(prev[k].listing)
    /\ \A k \in DOMAIN Batches :
          /\ Len(Batches[k].results) <= Len(Batches[k].listing)
          /\ \A i \in DOMAIN Batches[k].results :
                Batches[k].results[i].original_path = Batches[k].listing[i]
          /\ \A c \in DOMAIN Batches[k].calls :
                ~Batches[k].calls[c].ok
                => \E i \in DOMAIN Batches[k].results :
                      /\ Batches[k].results[i].original_path = Batches[k].calls[c].file
                      /\ IsFailed(Batches[k].results[i])

\* a batch of several files returned in which the rename of a file that was
\* not the last one raised
C4_Witness ==
    \E k \in DOMAIN prev :
        /\ Len(prev[k].listing) >= 2
        /\ Len(prev[k].results) = Len(prev[k].listing)
        /\ \E c \in DOMAIN prev[k].calls :
              /\ prev[k].calls[c].op = "rename"
              /\ ~prev[k].calls[c].ok
              /\ prev[k].calls[c].file # prev[k].listing[Len(prev[k].listing)]

\* C5: sanitize(sanitize(x)) = sanitize(x).
C5_SanitizeIdempotent ==
    spc \in {"resanitized", "done"} => safe2 = safe1

\* C6: sanitize(x) satisfies is_safe_filename.
C6_SanitizedIsSafe ==
    Sanitized => is_safe_filename(safe1)

\* C7: len(sanitize(x)) <= MAX_FILENAME_LENGTH.
C7_SanitizedLength ==
    Sanitized => Len(safe1) <= MAX_FILENAME_LENGTH

\* C8: the name add_collision_suffix builds from the base and extension of a
\* sanitized name is at most MAX_FILENAME_LENGTH characters long.
C8_CollisionNameLength ==
    spc = "done" => Len(coll) <= MAX_FILENAME_LENGTH

\* C9: the base name of every destination rename_file reports holds none of
\* the pairs '--', '__', '-_', '_-'.
C9_NoAdjacentSeparators ==
    \A k \in DOMAIN Batches :
        \A i \in DOMAIN Batches[k].results :
            IsSuccess(Batches[k].results[i])
            => ~HasAdjacentSeparators(
                    split_filename(Batches[k].results[i].new_path.name)[1])

\* the text of name between the base and the extension ext, ten characters
SuffixPart(name, ext) ==
    SubSeq(name, Len(name) - Len(ext) - 9, Len(name) - Len(ext))

\* C10: every disambiguated name a collision produced for an original name
\* is the same name, and its suffix is the digest of the original name.
C10_CollisionNameFromOriginalOnly ==
    /\ \A a \in resolved : \A b \in resolved : a[1] = b[1] => a[2] = b[2]
    /\ \A a \in resolved :
          SuffixPart(a[2], split_filename(sanitize(a[1]))[2])
            = <<"-", "-">> \o HashSuffix(a[1])

Collided(r) == IsSuccess(r) /\ r.new_path.name # sanitize(r.original_path.name)

\* a file collided in a dry-run batch and again in the live batch after it
C10_Witness ==
    /\ Len(prev) >= 2
    /\ prev[1].dry_run
    /\ ~prev[2].dry_run
    /\ \E i \in DOMAIN prev[1].results : \E j \in DOMAIN prev[2].results :
          /\ Collided(prev[1].results[i])
          /\ Collided(prev[2].results[j])
          /\ prev[1].results[i].original_path = prev[2].results[j].original_path

\* C11: in every batch, dry-run or live, the result of a file whose name is
\* a member of SYSTEM_FILES is Skipped with the reason "System file", also
\* when the name is a safe one, and no capability call is made for it.
C11_SystemFileSkipped ==
    \A k \in DOMAIN Batches :
        /\ \A i \in DOMAIN Batches[k].results :
              Batches[k].listing[i].name \in SYSTEM_FILES
              => Batches[k].results[i] = skipped(Batches[k].listing[i], "System file")
        /\ \A c \in DOMAIN Batches[k].calls :
              Batches[k].calls[c].file.name \notin SYSTEM_FILES

\* batch holds the result of a system file with a safe name and of one with
\* an unsafe name
SkipsBothSystemFiles(batch) ==
    /\ \E i \in DOMAIN batch.results :
          /\ batch.listing[i].name \in SYSTEM_FILES
          /\ is_safe_filename(batch.listing[i].name)
    /\ \E i \in DOMAIN batch.results :
          /\ batch.listing[i].name \in SYSTEM_FILES
          /\ ~is_safe_filename(batch.listing[i].name)

\* a dry-run batch and a live batch returned, each over a system file with a
\* safe name and one with an unsafe name
C11_Witness ==
    /\ \E k \in DOMAIN prev : prev[k].dry_run /\ SkipsBothSystemFiles(prev[k])
    /\ \E k \in DOMAIN prev : ~prev[k].dry_run /\ SkipsBothSystemFiles(prev[k])

\* the capability calls of a live rename, in the order of base.py:127-162:
\* PROBE, EXECUTE, HASH (hash, then size), RECORD
WORKFLOW == <<"exists", "rename", "hash", "size", "write_sidecar">>

\* the calls a batch made for file, in the order it made them
CallsFor(batch, file) == SelectSeq(batch.calls, LAMBDA c : c.file = file)

\* the result r of a batch is one of the three terminal outcomes and the
\* calls made for its file are the steps of the workflow up to that outcome;
\* a Failed outcome comes from a failed call of one of the steps failedFrom
FollowsWorkflow(batch, r, failedFrom) ==
    LET made == CallsFor(batch, r.original_path)
        n == Len(made)
    IN /\ \/ r = success(r.original_path, r.new_path, r.sidecar_path)
          \/ r = skipped(r.original_path, r.error)
          \/ r = failure(r.original_path, r.error)
       /\ Cardinality({ b \in {"Success", "Skipped", "Failed"} :
                          \/ b = "Success" /\ IsSuccess(r)
                          \/ b = "Skipped" /\ IsSkipped(r)
                          \/ b = "Failed" /\ IsFailed(r) }) = 1
       /\ n <= Len(WORKFLOW)
       /\ \A i \in 1..n : made[i].op = WORKFLOW[i]
       /\ \A i \in 1..(n - 1) : made[i].ok
       /\ IsSkipped(r) => n = 0
       /\ IsSuccess(r) /\ batch.dry_run => n = 1 /\ made[1].ok
       /\ IsSuccess(r) /\ ~batch.dry_run => n = Len(WORKFLOW) /\ made[n].ok
       /\ IsFailed(r) => /\ n >= 1
                         /\ ~made[n].ok
                         /\ made[n].op \in failedFrom

C19_StatsCountOutcomes ==
    \A k \in DOMAIN runs :
        runs[k].ended = "returned"
        => LET rs == runs[k].returned
               st == runs[k].stats
               rate == success_rate(st)
           IN /\ st.total_files = Len(rs)
              /\ st.renamed = Cardinality({ i \in DOMAIN rs : IsSuccess(rs[i]) })
              /\ st.skipped = Cardinality({ i \in DOMAIN rs : IsSkipped(rs[i]) })
              /\ st.errors = Cardinality({ i \in DOMAIN rs : IsFailed(rs[i]) })
              /\ st.total_files = st.renamed + st.skipped + st.errors
              /\ rate[2] > 0
              /\ IF st.total_files > 0
                 THEN rate[1] * st.total_files = st.renamed * rate[2]
                 ELSE rate[1] = 0

\* main computed the statistics of a list that holds a Success and a Failed
\* outcome
C19_Witness ==
    \E k \in DOMAIN runs :
        /\ runs[k].ended = "returned"
        /\ runs[k].stats.renamed >= 1
        /\ runs[k].stats.errors >= 1
        /\ \E i \in DOMAIN runs[k].returned : IsFailed(runs[k].returned[i])

\* C13: an invocation whose listing failed does not hand main a normal
\* result list: the failure of the listing leaves rename_directory.
C13_ListingFailurePropagates ==
    \A k \in DOMAIN runs :
        runs[k].list_failed => ~(runs[k].ended = "returned" /\ runs[k].received)

\* C14: when an invocation ends by KeyboardInterrupt, every file a
\* capability was called for has its outcome in the accumulated list, every
\* file that was renamed has its sidecar or a Failed outcome, and the
\* accumulated list is the list main received.
C14_InterruptAtFileBoundary ==
    \A k \in DOMAIN runs :
        runs[k].ended = "interrupted"
        => /\ \A c \in DOMAIN runs[k].calls :
                 \E i \in DOMAIN runs[k].results :
                    runs[k].results[i].original_path = runs[k].calls[c].file
           /\ \A c \in DOMAIN runs[k].calls :
                 (runs[k].calls[c].op = "rename" /\ runs[k].calls[c].ok)
                 => \/ SidecarPathOf(runs[k].calls[c].path) \in DOMAIN runs[k].fs_after
                    \/ \E i \in DOMAIN runs[k].results :
                          /\ runs[k].results[i].original_path = runs[k].calls[c].file
                          /\ IsFailed(runs[k].results[i])
           /\ runs[k].received
           /\ runs[k].returned = runs[k].results

\* C15: the exit code of main is 130 after an interruption, 1 when an
\* outcome is Failed or the target could not be listed, and 0 otherwise.
C15_ExitCode ==
    \A k \in DOMAIN runs :
        runs[k].exit_code =
            IF runs[k].ended = "interrupted" THEN 130
            ELSE IF \/ runs[k].list_failed
                    \/ \E i \in DOMAIN runs[k].results : IsFailed(runs[k].results[i])
                 THEN 1
                 ELSE 0

\* C16: a name that satisfies is_safe_filename is its own sanitize.
C16_SafeNameUnchanged ==
    (Sanitized /\ is_safe_filename(raw)) => safe1 = raw

\* the second-to-last dot-segment of filename is a compound-extension marker
HasCompoundExtension(filename) ==
    Len(RSplit2(filename)) = 3 /\ RSplit2(filename)[2] \in COMPOUND_MARKERS

\* name ends in '.', marker, '.' and a word of [a-z0-9]
EndsInCompoundExtension(name, marker) ==
    \E j \in DOMAIN name :
        LET tail == SubSeq(name, j, Len(name))
            head == Len(marker) + 2
        IN /\ Len(tail) > head
           /\ SubSeq(tail, 1, head) = <<".">> \o marker \o <<".">>
           /\ AlnumWord(SubSeq(tail, head + 1, Len(tail)))

\* C17: for a raw name whose second-to-last dot-segment is 'tar' or
\* 'backup', split_filename returns the two trailing segments as the
\* extension and sanitize returns a name that ends in that marker and a
\* last segment, both with their dots.
C17_CompoundExtensionKept ==
    (Sanitized /\ HasCompoundExtension(raw))
    => /\ split_filename(raw)[2]
            = <<".">> \o RSplit2(raw)[2] \o <<".">> \o RSplit2(raw)[3]
       /\ EndsInCompoundExtension(safe1, RSplit2(raw)[2])

\* C18: the base of sanitize(x) is not a reserved name, and it is 'file_'
\* followed by the cleaned base when the cleaned base is a reserved name.
C18_BaseNeverReserved ==
    Sanitized
    => LET base == split_filename(safe1)[1]
           cleaned == sanitize_base_name(split_filename(raw)[1])
       IN /\ Lower(base) \notin RESERVED_NAMES
          /\ Lower(cleaned) \in RESERVED_NAMES
             => base = <<"f","i","l","e","_">> \o cleaned

\* C20: read_sidecar raises nothing; it returns a record when the stored
\* content is a JSON object whose schema is SCHEMA and None for every other
\* stored content.
C20_ReadSidecarNeverRaises ==
    rpc = "read"
    => /\ rd.kind # "raised"
       /\ rd.kind = "record" <=> (stored.kind = "object" /\ stored.schema = SCHEMA)

----------------------------------------------------------------------------
(* The order and the number of the capability calls of one rename_file     *)

\* the calls of the batch that is running, when it is a live one
LiveCalls == IF pc = "loop" /\ ~dry_run THEN calls ELSE <<>>

\* C21: in a live rename_file the capabilities are called in the order
\* existence probe, rename, hash, size, sidecar write: the rename follows a
\* probe that returned, the hash follows a rename that returned and is taken
\* on the path the file was renamed to, the size follows the hash, the
\* sidecar write follows a rename, a hash and a size that all returned, and
\* after a failed rename no further call is made for the file.
C21_CallOrder ==
    \A j \in DOMAIN LiveCalls :
        LET c == LiveCalls[j]
            Returned(op) == { i \in 1..(j - 1) : /\ LiveCalls[i].file = c.file
                                                 /\ LiveCalls[i].op = op
                                                 /\ LiveCalls[i].ok }
        IN /\ c.op = "rename" => Returned("exists") # {}
           /\ c.op = "hash" => /\ Returned("rename") # {}
                               /\ \A i \in Returned("rename") : LiveCalls[i].path = c.path
                               /\ c.path # c.file
           /\ c.op = "size" => Returned("hash") # {}
           /\ c.op = "write_sidecar" =>
                 /\ Returned("rename") # {}
                 /\ Returned("hash") # {}
                 /\ Returned("size") # {}
                 /\ \A i \in Returned("rename") : \A h \in Returned("hash") :
                       \A z \in Returned("size") : i < h /\ h < z
           /\ c.op = "rename" /\ ~c.ok =>
                 \A i \in (j + 1)..Len(LiveCalls) : LiveCalls[i].file # c.file

\* a live batch in which one file went through rename, hash, size and sidecar
\* write and the rename of another failed
C21_Witness ==
    /\ \E j \in DOMAIN LiveCalls : LiveCalls[j].op = "write_sidecar" /\ LiveCalls[j].ok
    /\ \E j \in DOMAIN LiveCalls : LiveCalls[j].op = "rename" /\ ~LiveCalls[j].ok

\* the file rename_file has just returned from, in a live batch, when its
\* last call was a hash or a size that failed
FailedAfterRename ==
    /\ pc = "loop"
    /\ ~dry_run
    /\ idx >= 1
    /\ idx = Len(results)
    /\ calls # <<>>
    /\ calls[Len(calls)].file = listing[idx]
    /\ calls[Len(calls)].op \in {"hash", "size"}
    /\ ~calls[Len(calls)].ok

\* where the rename of the file just processed put it
RenamedTo ==
    LET made == SelectSeq(calls, LAMBDA c : c.file = listing[idx] /\ c.op = "rename")
    IN made[1].path

LastInvocation == { i \in DOMAIN calls : calls[i].file = calls[Len(calls)].file }

\* C23: within one rename_file every capability is called at most once; the
\* rename goes to the name that was probed or, when that is occupied, to the
\* name the collision resolver makes of it in one application; and that
\* disambiguated destination is never probed.
C23_AtMostOnce ==
    (pc = "loop" /\ calls # <<>>) =>
        \A i \in LastInvocation :
            /\ \A j \in LastInvocation : calls[j].op = calls[i].op => j = i
            /\ calls[i].op = "rename" =>
                  \E e \in LastInvocation :
                      /\ calls[e].op = "exists"
                      /\ e < i
                      /\ \/ calls[i].path = calls[e].path
                         \/ LET parts == split_filename(calls[e].path.name)
                            IN /\ calls[i].path =
                                     Path(calls[e].path.parent,
                                          add_collision_suffix(parts[1], parts[2],
                                                               calls[i].file.name))
                               /\ \A p \in LastInvocation :
                                     calls[p].op = "exists" =>
                                         calls[p].path # calls[i].path

\* a rename to a disambiguated name was made, after a single probe
C23_Witness ==
    /\ pc = "loop"
    /\ \E i \in DOMAIN calls :
          /\ calls[i].op = "rename"
          /\ calls[i].ok
          /\ calls[i].path.name # sanitize(calls[i].file.name)
          /\ Cardinality({ j \in DOMAIN calls : calls[j].file = calls[i].file
                                                /\ calls[j].op = "exists" }) = 1

----------------------------------------------------------------------------
(* Where a rename puts the file                                            *)

\* C24: every Success outcome, dry-run or live, names a new path and a
\* sidecar path in the directory of the original path, and every rename is
\* made to a destination in the directory of its source: rename_file moves no
\* file into another directory.
C24_SameParent ==
    pc = "loop" =>
        /\ \A i \in DOMAIN results :
              IsSuccess(results[i]) =>
                  /\ results[i].new_path.parent = results[i].original_path.parent
                  /\ results[i].sidecar_path.parent = results[i].original_path.parent
        /\ \A i \in DOMAIN calls : calls[i].path.parent = calls[i].file.parent

\* a file of the directory below was renamed by a live batch, and stayed
\* there, while the directory above holds a file of the same new name
C24_Witness ==
    /\ pc = "loop"
    /\ ~dry_run
    /\ \E i \in DOMAIN results :
          /\ IsSuccess(results[i])
          /\ results[i].original_path.parent = SubDir
          /\ results[i].new_path \in DOMAIN fs
          /\ Path(TargetDir, results[i].new_path.name) \in DOMAIN fs

\* C27: a live rename never replaces another file: whenever rename_file makes
\* the rename, to the sanitized or to the disambiguated name, no file is at
\* the destination.
C27_RenameNeverReplaces ==
    [][ (pc = "loop" /\ pc' = "loop" /\ ~dry_run) =>
            \A i \in (Len(calls) + 1)..Len(calls') :
                (calls'[i].op = "rename" /\ calls'[i].ok) =>
                    calls'[i].path \notin DOMAIN fs ]_vars

----------------------------------------------------------------------------
(* The character filter of sanitize_base_name                              *)

\* the characters str.isspace() holds for, among those of the model
WHITESPACE == {" ", "\t", "\n", "\r", "U+000C"}

\* whitespace and the two separator characters
SEPARATORS == WHITESPACE \cup {"-", "_"}

\* the filter as C25 words it, on the lowercased name t: a-z and 0-9 pass, a
\* '-' stands for the whitespace and separators between two characters that
\* pass, every other character leaves nothing, and no separator is left at
\* either end
ClaimedFilter(t) ==
    LET Passes(i) == t[i] \in ALNUM
        Before(i) == { m \in 1..(i - 1) : Passes(m) }
        Dash(i) == /\ i > 1
                   /\ ~Passes(i - 1)
                   /\ Before(i) # {}
                   /\ \E j \in (MaxOf(Before(i)) + 1)..(i - 1) : t[j] \in SEPARATORS
    IN Flatten([i \in 1..Len(t) |->
                   IF ~Passes(i) THEN <<>>
                   ELSE IF Dash(i) THEN <<"-", t[i]>>
                   ELSE <<t[i]>>])

\* C25: sanitize_base_name filters the lowercased base character by
\* character: a-z and 0-9 pass, every run of whitespace, '-' and '_' becomes
\* one '-', every other character is dropped without a separator in its
\* place, and leading and trailing separators are removed.
C25_BaseNameFilter ==
    Sanitized =>
        LET base == split_filename(raw)[1]
            expected == ClaimedFilter(transliterate(Lower(normalize_unicode(base))))
        IN expected # <<>> => sanitize_base_name(base) = expected

----------------------------------------------------------------------------
(* Batches run one after another over the same directory                   *)

\* the batch renamed no file and wrote no sidecar
Quiet(batch) ==
    \A i \in DOMAIN batch.calls : batch.calls[i].op \notin {"rename", "write_sidecar"}

\* C26: live batches run one after another over the same directory, with no
\* capability failure, reach a batch that renames no file and writes no
\* sidecar; here, within the MaxBatches batches an execution makes.
C26_RunsConverge ==
    ( /\ Len(prev) = MaxBatches
      /\ \A k \in DOMAIN prev : ~prev[k].dry_run /\ NoCallFailed(prev[k]) )
    => \E k \in DOMAIN prev : Quiet(prev[k])

\* C28: the sidecars the tool wrote are no rename candidates: no later batch
\* makes a capability call for a '<name>.meta.json' an earlier live batch
\* wrote, so that it is neither renamed nor given a sidecar of its own.
C28_SidecarsNotCandidates ==
    \A k \in DOMAIN Batches : \A j \in DOMAIN Batches :
        k < j =>
            \A i \in DOMAIN Batches[k].calls :
                LET c == Batches[k].calls[i]
                IN (c.op = "write_sidecar" /\ c.ok) =>
                      \A n \in DOMAIN Batches[j].calls :
                          Batches[j].calls[n].file # SidecarPathOf(c.path)

\* C29: after a live batch without failures no listed file is left in the
\* directory under a name whose base is a reserved device name, in any
\* letter case.
C29_NoReservedBaseKept ==
    \A k \in DOMAIN prev :
        (~prev[k].dry_run /\ NoCallFailed(prev[k])) =>
            \A i \in DOMAIN prev[k].listing :
                prev[k].listing[i] \in DOMAIN prev[k].fs_after =>
                    Lower(split_filename(prev[k].listing[i].name)[1]) \notin RESERVED_NAMES

----------------------------------------------------------------------------
(* The remote rename                                                       *)

\* the commands of the running remote rename that returned, by name
ReturnedCommand(cmd) ==
    { i \in DOMAIN remote.commands :
        remote.commands[i].cmd = cmd /\ remote.commands[i].ok }

\* C30: the remote rename never loses the file: in every state the content
\* of the file is at the source or at the destination; the source is gone
\* only after copyto returned and lsf then listed the destination; and when
\* copyto or lsf fails, or lsf lists nothing, the rename raises with the
\* source in place.
C30_RemoteNeverLoses ==
    remote.pc # "off" =>
        LET atSource == /\ remote.old_path \in DOMAIN fs
                        /\ fs[remote.old_path] = remote.content
            atDestination == /\ remote.new_path \in DOMAIN fs
                             /\ fs[remote.new_path] = remote.content
            n == Len(remote.commands)
        IN /\ atSource \/ atDestination
           /\ ~atSource =>
                 /\ atDestination
                 /\ \E i \in ReturnedCommand("copyto") : \E j \in ReturnedCommand("lsf") :
                       /\ i < j
                       /\ remote.commands[j].out = "listed"
                       /\ \A k \in DOMAIN remote.commands :
                             remote.commands[k].cmd = "deletefile" => j < k
           /\ remote.pc = "raised" /\ remote.commands[n].cmd \in {"copyto", "lsf"} =>
                 atSource
           /\ remote.pc = "returned" => atDestination /\ ~atSource

\* the verification failed after the copy was made: the rename raised with
\* the file at both paths
C30_Witness ==
    /\ remote.pc = "raised"
    /\ remote.commands[Len(remote.commands)].cmd = "lsf"
    /\ remote.old_path \in DOMAIN fs
    /\ remote.new_path \in DOMAIN fs

====
